---- MODULE Spec2Model ----
(***************************************************************************)
(* Model of backend/src/routes/cart.py: the four cart handlers (get_cart,  *)
(* add_to_cart, update_cart, remove_from_cart) over the cart_items table   *)
(* and the interaction log.                                                *)
(*                                                                         *)
(* Spec     : one request at a time, every handler runs to completion.     *)
(* ConcSpec : two requests in flight, each on its own database session,    *)
(*            interleaved at the handlers' await points.                   *)
(***************************************************************************)
EXTENDS Integers, Sequences, FiniteSets

VARIABLES
    store,    \* cart_items table: (user_id, product_id) -> quantities of the rows with that key
    ilog,     \* interaction log, in the order written
    last,     \* Spec: the request handled last, the handler's locals and its response
    proc,     \* ConcSpec: per in-flight request, its arguments, locals, position and response
    store0    \* ConcSpec: the table as it was when the two requests arrived

vars == <<store, ilog, last, proc, store0>>

----------------------------------------------------------------------------
(* Bounds and input domains *)

\* AddItem is accepted while the interaction log holds fewer entries than this.
MaxLog == 2

Users == {"alice", "bob"}
Products == {"sku1"}
\* item.quantity as sent in a request body: <<>> is an omitted quantity (None).
None == <<>>
IntQuantities == {<<q>> : q \in -1..2}
Quantities == {None} \cup IntQuantities
Req == {"r1", "r2"}

Keys == Users \X Products
Items(qs) == [user_id : Users, product_id : Products, quantity : qs]
NoItem == [user_id |-> "", product_id |-> "", quantity |-> None]

EmptyStore == [k \in Keys |-> <<>>]

----------------------------------------------------------------------------
(* Persistence layer *)

\* select(CartItemDB).where(user_id == .., product_id == ..): the matching rows.
SelectRows(s, user_id, product_id) == s[<<user_id, product_id>>]

\* result.scalar_one_or_none() raises MultipleResultsFound on more than one row.
MultipleResultsFound(rows) == Len(rows) > 1

\* Variant: a table with no key on (user_id, product_id).
PrimaryKeyFreeUnkeyed(s, user_id, product_id) == TRUE

\* cart_items is keyed by (user_id, product_id): an INSERT of a key that is
\* already present is rejected by the table (IntegrityError).
PrimaryKeyFree(s, user_id, product_id) == Len(s[<<user_id, product_id>>]) = 0

\* db.add(new_item) flushed at commit: INSERT one row.
InsertRow(s, user_id, product_id, quantity) ==
    [s EXCEPT ![<<user_id, product_id>>] = Append(@, quantity)]

\* Variant: UPDATE .. SET quantity = quantity + v.
UpdateRowRelative(s, user_id, product_id, quantity) ==
    [s EXCEPT ![<<user_id, product_id>>] = [i \in DOMAIN @ |-> @[i] + quantity]]

\* existing_item.quantity = v flushed at commit: UPDATE .. SET quantity = v WHERE key.
UpdateRow(s, user_id, product_id, quantity) ==
    [s EXCEPT ![<<user_id, product_id>>] = [i \in DOMAIN @ |-> quantity]]

\* db.delete(existing_item) flushed at commit: DELETE .. WHERE key.
DeleteRow(s, user_id, product_id) ==
    [s EXCEPT ![<<user_id, product_id>>] = <<>>]

\* db_service.log_interaction(db, user_id, item_id, interaction_type): append.
log_interaction(lg, user_id, item_id, interaction_type) ==
    Append(lg, [user_id |-> user_id, item_id |-> item_id,
                interaction_type |-> interaction_type])

----------------------------------------------------------------------------
(* Handler fragments *)

\* Variant: the ownership check left out of a handler.
OwnCartUnchecked(current_user, user_id) == TRUE

\* `current_user.user_id != user_id` raises 403 when this is false.
OwnCart(current_user, user_id) == current_user = user_id

\* `item.quantity or 1`: None and 0 are falsy, every other integer is kept.
QuantityOrOne(quantity) ==
    IF quantity = None \/ quantity = <<0>> THEN 1 ELSE quantity[1]

\* get_cart's comprehension over the rows of user_id.
CartItems(s, user_id) ==
    UNION {{[user_id |-> user_id, product_id |-> p, quantity |-> s[<<user_id, p>>][i]] :
              i \in DOMAIN s[<<user_id, p>>]} : p \in Products}

Response(s, lg, status, existing, body) ==
    [store |-> s, ilog |-> lg, status |-> status, existing |-> existing, body |-> body]

\* Variant: `existing_item.quantity = item.quantity or 1` in place of `+=`.
AddCommitOverwrite(s, existing, user_id, item) ==
    IF existing # <<>>
    THEN [store |-> UpdateRow(s, user_id, item.product_id, QuantityOrOne(item.quantity)),
          status |-> 204]
    ELSE [store |-> InsertRow(s, user_id, item.product_id, QuantityOrOne(item.quantity)),
          status |-> 204]

\* add_to_cart from `if existing_item:` to `await db.commit()`, given the row the
\* lookup returned and the table as it is when the commit is flushed.
AddCommit(s, existing, user_id, item) ==
    IF existing # <<>>
    THEN IF s[<<user_id, item.product_id>>] = <<>>
         THEN [store |-> s, status |-> 500]    \* UPDATE matched no row: StaleDataError
         ELSE [store |-> UpdateRow(s, user_id, item.product_id,
                                   existing[1] + QuantityOrOne(item.quantity)),
               status |-> 204]
    ELSE IF PrimaryKeyFree(s, user_id, item.product_id)
         THEN [store |-> InsertRow(s, user_id, item.product_id,
                                   QuantityOrOne(item.quantity)),
               status |-> 204]
         ELSE [store |-> s, status |-> 500]    \* IntegrityError, rolled back

\* Variant: `existing_item.quantity += item.quantity` in place of `=`.
UpdateCommitIncrement(s, existing, user_id, item) ==
    IF item.quantity[1] <= 0
    THEN [store |-> DeleteRow(s, user_id, item.product_id), status |-> 204]
    ELSE [store |-> UpdateRow(s, user_id, item.product_id, existing[1] + item.quantity[1]),
          status |-> 204]

\* update_cart's `if existing_item:` branch up to `await db.commit()`.
UpdateCommit(s, existing, user_id, item) ==
    IF item.quantity[1] <= 0
    THEN [store |-> DeleteRow(s, user_id, item.product_id), status |-> 204]
    ELSE IF s[<<user_id, item.product_id>>] = <<>>
         THEN [store |-> s, status |-> 500]    \* UPDATE matched no row: StaleDataError
         ELSE [store |-> UpdateRow(s, user_id, item.product_id, item.quantity[1]),
               status |-> 204]

----------------------------------------------------------------------------
(* The handlers, run to completion *)

get_cart(s, lg, current_user, user_id) ==
    IF ~OwnCart(current_user, user_id)
    THEN Response(s, lg, 403, <<>>, {})
    ELSE Response(s, lg, 200, <<>>, CartItems(s, user_id))

add_to_cart(s, lg, current_user, user_id, item) ==
    IF ~OwnCart(current_user, user_id)
    THEN Response(s, lg, 403, <<>>, {})
    ELSE LET lg2 == log_interaction(lg, item.user_id, item.product_id, "cart")
             rows == SelectRows(s, user_id, item.product_id)
         IN  IF MultipleResultsFound(rows)
             THEN Response(s, lg2, 500, <<>>, {})
             ELSE LET c == AddCommit(s, rows, user_id, item)
                  IN  Response(c.store, lg2, c.status, rows, {})

update_cart(s, lg, current_user, user_id, item) ==
    IF ~OwnCart(current_user, user_id)
    THEN Response(s, lg, 403, <<>>, {})
    ELSE LET rows == SelectRows(s, user_id, item.product_id)
         IN  IF MultipleResultsFound(rows)
             THEN Response(s, lg, 500, <<>>, {})
             ELSE IF rows # <<>>
                  THEN LET c == UpdateCommit(s, rows, user_id, item)
                       IN  Response(c.store, lg, c.status, rows, {})
                  ELSE Response(s, lg, 404, rows, {})

\* After the ownership check the handler evaluates `delete(CartItemDB)`; the
\* module imports no `delete` (lines 1-12), so the call raises NameError and the
\* request ends in a 500 with nothing executed.  (With sqlalchemy's delete
\* imported the outcome is the same: the DELETE's result returns no rows, so
\* result.scalar_one_or_none() raises and the session is rolled back.)
remove_from_cart(s, lg, current_user, user_id, item) ==
    IF ~OwnCart(current_user, user_id)
    THEN Response(s, lg, 403, <<>>, {})
    ELSE Response(s, lg, 500, <<>>, {})

----------------------------------------------------------------------------
(* Spec: sequential requests *)

Handled(op, current_user, user_id, item, r) ==
    /\ store' = r.store
    /\ ilog' = r.ilog
    /\ last' = [op |-> op, user_id |-> user_id, current_user |-> current_user,
                item |-> item, status |-> r.status, existing |-> r.existing,
                body |-> r.body]
    /\ UNCHANGED <<proc, store0>>

NoRequest ==
    [op |-> "none", user_id |-> "", current_user |-> "", item |-> NoItem,
     status |-> 0, existing |-> <<>>, body |-> {}]

Idle ==
    [pc |-> "idle", op |-> "none", user_id |-> "", current_user |-> "",
     item |-> NoItem, status |-> 0, existing |-> <<>>, body |-> {}]

Init ==
    /\ store = EmptyStore
    /\ ilog = <<>>
    /\ last = NoRequest
    /\ proc = [r \in Req |-> Idle]
    /\ store0 = EmptyStore

ListCart ==
    \E current_user \in Users, user_id \in Users :
        Handled("list", current_user, user_id, NoItem,
                get_cart(store, ilog, current_user, user_id))

AddItem ==
    /\ Len(ilog) < MaxLog
    /\ \E current_user \in Users, user_id \in Users, item \in Items(Quantities) :
        Handled("add", current_user, user_id, item,
                add_to_cart(store, ilog, current_user, user_id, item))

UpdateItem ==
    \E current_user \in Users, user_id \in Users, item \in Items(IntQuantities) :
        Handled("update", current_user, user_id, item,
                update_cart(store, ilog, current_user, user_id, item))

RemoveItem ==
    \E current_user \in Users, user_id \in Users, item \in Items(Quantities) :
        Handled("remove", current_user, user_id, item,
                remove_from_cart(store, ilog, current_user, user_id, item))

Next == ListCart \/ AddItem \/ UpdateItem \/ RemoveItem

Spec == Init /\ [][Next]_vars

----------------------------------------------------------------------------
(* ConcSpec: two requests in flight.  Every request has its own session     *)
(* (get_db); the sessions meet only in the table.  A handler yields at each *)
(* await, so add_to_cart is three steps (ownership check and log, lookup,   *)
(* commit) and update_cart two (ownership check and lookup, commit).  A     *)
(* commit writes the value the handler computed from the row it looked up.  *)

\* The table and the log when the two requests arrive: empty, or as one
\* earlier authorized AddItem left them.
ArrivalStates ==
    {Response(EmptyStore, <<>>, 0, <<>>, {})} \cup
    {add_to_cart(EmptyStore, <<>>, u, u, item) : u \in Users, item \in Items(Quantities)}

ConcInit ==
    /\ \E a \in ArrivalStates : store = a.store /\ ilog = a.ilog /\ store0 = a.store
    /\ last = NoRequest
    /\ proc = [r \in Req |-> Idle]

Arrived(op, current_user, user_id, item) ==
    [pc |-> "idle", op |-> op, user_id |-> user_id, current_user |-> current_user,
     item |-> item, status |-> 0, existing |-> <<>>, body |-> {}]

Responded(p, status, body) == [p EXCEPT !.pc = "done", !.status = status, !.body = body]

ListRun(r) ==
    /\ proc[r].pc = "idle"
    /\ \E current_user \in Users, user_id \in Users :
        LET out == get_cart(store, ilog, current_user, user_id)
        IN  proc' = [proc EXCEPT ![r] =
                Responded(Arrived("list", current_user, user_id, NoItem),
                          out.status, out.body)]
    /\ UNCHANGED <<store, ilog, last, store0>>

RemoveRun(r) ==
    /\ proc[r].pc = "idle"
    /\ \E current_user \in Users, user_id \in Users, item \in Items(Quantities) :
        LET out == remove_from_cart(store, ilog, current_user, user_id, item)
        IN  /\ proc' = [proc EXCEPT ![r] =
                    Responded(Arrived("remove", current_user, user_id, item),
                              out.status, {})]
            /\ store' = out.store
    /\ UNCHANGED <<ilog, last, store0>>

\* add_to_cart up to the end of `await db_service.log_interaction(...)`.
AddBegin(r) ==
    /\ proc[r].pc = "idle"
    /\ \E current_user \in Users, user_id \in Users, item \in Items(Quantities) :
        LET p == Arrived("add", current_user, user_id, item)
        IN  IF ~OwnCart(current_user, user_id)
            THEN /\ proc' = [proc EXCEPT ![r] = Responded(p, 403, {})]
                 /\ ilog' = ilog
            ELSE /\ proc' = [proc EXCEPT ![r] = [p EXCEPT !.pc = "logged"]]
                 /\ ilog' = log_interaction(ilog, item.user_id, item.product_id, "cart")
    /\ UNCHANGED <<store, last, store0>>

\* add_to_cart's `await db.execute(stmt)` and scalar_one_or_none().
AddSelect(r) ==
    /\ proc[r].pc = "logged"
    /\ LET rows == SelectRows(store, proc[r].user_id, proc[r].item.product_id)
       IN  proc' = [proc EXCEPT ![r] =
               IF MultipleResultsFound(rows)
               THEN Responded(@, 500, {})
               ELSE [@ EXCEPT !.pc = "selected", !.existing = rows]]
    /\ UNCHANGED <<store, ilog, last, store0>>

\* add_to_cart from `if existing_item:` to the end of `await db.commit()`.
AddFlush(r) ==
    /\ proc[r].pc = "selected"
    /\ proc[r].op = "add"
    /\ LET c == AddCommit(store, proc[r].existing, proc[r].user_id, proc[r].item)
       IN  /\ store' = c.store
           /\ proc' = [proc EXCEPT ![r] = Responded(@, c.status, {})]
    /\ UNCHANGED <<ilog, last, store0>>

\* update_cart up to scalar_one_or_none(), and its 404 branch.
UpdateBegin(r) ==
    /\ proc[r].pc = "idle"
    /\ \E current_user \in Users, user_id \in Users, item \in Items(IntQuantities) :
        LET p == Arrived("update", current_user, user_id, item)
            rows == SelectRows(store, user_id, item.product_id)
        IN  proc' = [proc EXCEPT ![r] =
                IF ~OwnCart(current_user, user_id) THEN Responded(p, 403, {})
                ELSE IF MultipleResultsFound(rows) THEN Responded(p, 500, {})
                ELSE IF rows = <<>> THEN Responded(p, 404, {})
                ELSE [p EXCEPT !.pc = "selected", !.existing = rows]]
    /\ UNCHANGED <<store, ilog, last, store0>>

\* update_cart's `if existing_item:` branch to the end of `await db.commit()`.
UpdateFlush(r) ==
    /\ proc[r].pc = "selected"
    /\ proc[r].op = "update"
    /\ LET c == UpdateCommit(store, proc[r].existing, proc[r].user_id, proc[r].item)
       IN  /\ store' = c.store
           /\ proc' = [proc EXCEPT ![r] = Responded(@, c.status, {})]
    /\ UNCHANGED <<ilog, last, store0>>

ConcNext ==
    \E r \in Req :
        \/ ListRun(r)
        \/ RemoveRun(r)
        \/ AddBegin(r)
        \/ AddSelect(r)
        \/ AddFlush(r)
        \/ UpdateBegin(r)
        \/ UpdateFlush(r)

ConcSpec == ConcInit /\ [][ConcNext]_vars

----------------------------------------------------------------------------
(* Properties *)

Authorized(l) == l.current_user = l.user_id
Key(l) == <<l.user_id, l.item.product_id>>
Request(l) == [op |-> l.op, user_id |-> l.user_id, current_user |-> l.current_user,
               item |-> l.item]
\* The quantity of the row of key k, 0 when there is no row.
Quantity(s, k) == IF s[k] = <<>> THEN 0 ELSE s[k][1]
\* AddItem's effective increment as the contract words it: q, or 1 when q is
\* absent or zero.
Increment(quantity) == IF quantity = None THEN 1 ELSE IF quantity[1] = 0 THEN 1 ELSE quantity[1]

\* C1: a request whose path user_id differs from the caller's identity is
\* answered 403, whatever the operation, and writes neither a cart row nor an
\* interaction-log entry.
ForbiddenChangesNothing ==
    [][~Authorized(last') =>
          /\ last'.status = 403
          /\ store' = store
          /\ ilog' = ilog]_vars

\* C1 witness: a foreign request was refused while the targeted user's cart held
\* a row and the log an entry.
ForbiddenReached ==
    /\ ~Authorized(last)
    /\ last.op # "none"
    /\ last.status = 403
    /\ \E p \in Products : store[<<last.user_id, p>>] # <<>>
    /\ ilog # <<>>

\* C2: every cart row in the table has quantity >= 1.
RowsPositive ==
    \A k \in Keys : \A i \in DOMAIN store[k] : store[k][i] >= 1

\* C3: an authorized AddItem(u, p, q) with effective increment e leaves exactly
\* one row (u, p); its quantity is e when there was no row and q0 + e when the
\* row held q0; the request is answered 204 and no other row changes.
AddCreatesOrAccumulates ==
    [][(last'.op = "add" /\ Authorized(last')) =>
          LET k == Key(last')
              e == Increment(last'.item.quantity)
          IN  /\ last'.status = 204
              /\ Len(store'[k]) = 1
              /\ store'[k][1] = Quantity(store, k) + e
              /\ \A o \in Keys \ {k} : store'[o] = store[o]]_vars

\* C3 witness: quantity 2 was added to a row that held 2, giving 4.
AddAccumulated ==
    /\ last.op = "add"
    /\ last.status = 204
    /\ last.existing = <<2>>
    /\ last.item.quantity = <<2>>
    /\ store[Key(last)] = <<4>>

\* C4: an authorized UpdateItem(u, p, q) on an existing row sets its quantity
\* to exactly q when q > 0 and deletes the row when q <= 0, after which
\* ListCart(u) holds no item for p.
UpdateSetsOrDeletes ==
    [][(last'.op = "update" /\ Authorized(last') /\ store[Key(last')] # <<>>) =>
          LET k == Key(last')
              q == last'.item.quantity[1]
          IN  /\ last'.status = 204
              /\ q > 0 => store'[k] = <<q>>
              /\ q <= 0 =>
                    /\ store'[k] = <<>>
                    /\ \A c \in CartItems(store', last'.user_id) :
                          c.product_id # last'.item.product_id]_vars

\* C4 witness: a row holding 4 was updated with quantity 1 and now holds 1.
UpdateOverwrote ==
    /\ last.op = "update"
    /\ last.status = 204
    /\ last.existing = <<4>>
    /\ last.item.quantity = <<1>>
    /\ store[Key(last)] = <<1>>

\* C5: an authorized RemoveItem on an existing row deletes the row and is
\* answered 204, for every stored quantity and every quantity in the body.
RemoveDeletes ==
    [][(last'.op = "remove" /\ Authorized(last') /\ store[Key(last')] # <<>>) =>
          /\ last'.status = 204
          /\ store'[Key(last')] = <<>>]_vars

\* C6: an authorized UpdateItem or RemoveItem for a key with no row is
\* answered 404 and leaves the table unchanged.
MissingRowNotFound ==
    [][(/\ last'.op \in {"update", "remove"}
        /\ Authorized(last')
        /\ store[Key(last')] = <<>>) =>
          /\ last'.status = 404
          /\ store' = store]_vars

\* C7: when two authorized AddItem requests for the same (user_id, product_id)
\* with increments a and b have both completed with 204, the row's quantity is
\* the quantity it had when they arrived (0 if absent) plus a + b.  Stated for
\* the carts the data model allows: no stored quantity below 1, a and b >= 1.
NoLostUpdate ==
    \A r1 \in Req : \A r2 \in Req \ {r1} :
        (/\ proc[r1].op = "add" /\ proc[r2].op = "add"
         /\ proc[r1].pc = "done" /\ proc[r2].pc = "done"
         /\ proc[r1].status = 204 /\ proc[r2].status = 204
         /\ Key(proc[r1]) = Key(proc[r2])
         /\ Quantity(store0, Key(proc[r1])) >= 0
         /\ Increment(proc[r1].item.quantity) >= 1
         /\ Increment(proc[r2].item.quantity) >= 1) =>
            Quantity(store, Key(proc[r1])) =
                Quantity(store0, Key(proc[r1]))
                    + Increment(proc[r1].item.quantity)
                    + Increment(proc[r2].item.quantity)

\* C8 as stated: a request of AddItem, UpdateItem or RemoveItem that repeats the
\* request handled just before it, with identical arguments, leaves the table
\* as the first execution left it.
RetryIdempotent ==
    [][(Request(last') = Request(last) /\ last.op \in {"add", "update", "remove"}) =>
          store' = store]_vars

\* C8 amended: a repeated UpdateItem or RemoveItem leaves the table as the first
\* execution left it; a repeated authorized AddItem does not: it adds its
\* effective increment once more.
RetryIdempotentButAdd ==
    [][Request(last') = Request(last) =>
          /\ last.op \in {"update", "remove"} => store' = store
          /\ (last.op = "add" /\ Authorized(last)) =>
                /\ store' # store
                /\ Quantity(store', Key(last)) =
                      Quantity(store, Key(last)) + Increment(last.item.quantity)]_vars

\* C8 witness: an UpdateItem found the row already holding the quantity it
\* sets, as its retry does, and left it so.
UpdateRetried ==
    /\ last.op = "update"
    /\ last.status = 204
    /\ last.existing = last.item.quantity
    /\ store[Key(last)] = last.item.quantity

\* C9: the table holds at most one row per (user_id, product_id), also after
\* two concurrent AddItem requests that both looked the pair up before either
\* committed.
OneRowPerKey ==
    \A k \in Keys : Len(store[k]) <= 1

\* C9 witness: two AddItem requests for the same absent pair both found no row
\* and both ran their commit.
ConcurrentFirstAdds ==
    \E r1 \in Req : \E r2 \in Req \ {r1} :
        /\ proc[r1].op = "add" /\ proc[r2].op = "add"
        /\ proc[r1].pc = "done" /\ proc[r2].pc = "done"
        /\ Key(proc[r1]) = Key(proc[r2])
        /\ store0[Key(proc[r1])] = <<>>
        /\ proc[r1].existing = <<>> /\ proc[r2].existing = <<>>
        /\ proc[r1].status = 204 /\ proc[r2].status = 500
        /\ Len(store[Key(proc[r1])]) = 1

\* C10: every interaction-log entry AddItem writes names the authenticated
\* caller as its actor, whatever user_id the request body carries.
LogActorIsCaller ==
    [][ilog' # ilog =>
          /\ Len(ilog') = Len(ilog) + 1
          /\ ilog'[Len(ilog')].user_id = last'.current_user]_vars

====
